---- MODULE Spec2Model ----
(***************************************************************************)
(* Model of src/magento/client.py: the request executor                    *)
(* (Magento.request_api with raise_for_response) and the paginator         *)
(* (Magento.get_paginated).                                                *)
(*                                                                         *)
(* A blocking point of the code (one HTTP call of the transport, one       *)
(* time.sleep, one suspension of the generator at its yield) ends an       *)
(* action; everything the thread does between two blocking points belongs  *)
(* to one action.                                                          *)
(*                                                                         *)
(* Left out: the debug logging (no effect on control flow) and exceptions  *)
(* of the transport itself (connection errors), which pass through both    *)
(* functions unchanged.  A response is its status and its body text; the   *)
(* activation of request_api is dropped when it returns to get_paginated.  *)
(***************************************************************************)
EXTENDS Integers, Sequences, FiniteSets, TLC

\* ------------------------------------------------------------------ bounds
\* largest retry count a caller passes
MaxRetry == 2
\* largest number of consecutive failures the server plans for a direct call
MaxFail == 3
\* largest number of entities the server holds, and largest total_count it reports
MaxT == 3
\* largest positive limit a caller passes
MaxLimit == 3
\* largest page size a client is constructed with (batch_page_size)
MaxPageSize == 2
\* longest items array of a page made up by a misbehaving server
MaxPageLen == 2

\* ------------------------------------------------------- program constants
\* time.sleep(10) between two attempts
RETRY_SLEEP == 10
\* Magento.PAGE_SIZE
DEFAULT_PAGE_SIZE == 1000
DEFAULT_SCOPE == "all"

\* --------------------------------------------------------- response bodies
\* A body is a sequence of lexical tokens.  Every token has the same shape so
\* that bodies compare: t is the token class, k the member name of a
\* "name": value pair and v its value (a list of numbers; a number n is <<n>>).
Tok(t) == [t |-> t, k |-> "", v |-> <<>>]
Pair(k, v) == [t |-> "pair", k |-> k, v |-> v]
LBRACE == Tok("{")
RBRACE == Tok("}")
LBRACKET == Tok("[")
RBRACKET == Tok("]")
WS == Tok(" ")
JUNK == Tok("junk")

RECURSIVE LStrip(_)
LStrip(s) == IF s # <<>> /\ Head(s) = WS THEN LStrip(Tail(s)) ELSE s

RECURSIVE RStrip(_)
RStrip(s) ==
    IF s # <<>> /\ s[Len(s)] = WS THEN RStrip(SubSeq(s, 1, Len(s) - 1)) ELSE s

\* response.json(): the JSON decoder skips the white space around the value;
\* an object is "{" members "}", an array "[" ... "]"; anything else is a
\* ValueError (ok = FALSE).
JsonParse(text) ==
    LET s == RStrip(LStrip(text))
        n == Len(s)
        inner == IF n >= 2 THEN SubSeq(s, 2, n - 1) ELSE <<>>
    IN  IF n >= 2 /\ s[1] = LBRACE /\ s[n] = RBRACE
           /\ \A i \in 1..Len(inner) : inner[i].t = "pair"
        THEN [ok |-> TRUE, isDict |-> TRUE, members |-> inner]
        ELSE IF n >= 2 /\ s[1] = LBRACKET /\ s[n] = RBRACKET
                /\ \A i \in 1..Len(inner) : inner[i].t = "junk"
        THEN [ok |-> TRUE, isDict |-> FALSE, members |-> <<>>]
        ELSE [ok |-> FALSE, isDict |-> FALSE, members |-> <<>>]

\* "key" in body
DictHas(body, key) == \E i \in 1..Len(body.members) : body.members[i].k = key

\* body[key]: the last member of that name wins
DictGet(body, key) ==
    LET i == CHOOSE j \in 1..Len(body.members) :
                 /\ body.members[j].k = key
                 /\ \A l \in (j + 1)..Len(body.members) : body.members[l].k # key
    IN  body.members[i].v

\* ---------------------------------------------------------------- responses
Response(status, text) == [status |-> status, text |-> text]
NoResponse == Response(0, <<>>)

\* requests.Response.ok: raise_for_status() raises for 400 <= status < 600 only
IsOk_2xxOnly(r) == r.status >= 200 /\ r.status < 300
IsOk(r) == ~(r.status >= 400 /\ r.status < 600)

\* an exception with the response it carries; NoError when nothing is raised
Exc(type, r) == [type |-> type, response |-> r]
NoError == Exc("none", NoResponse)

\* requests.Response.raise_for_status()
raise_for_status(r) ==
    IF r.status >= 400 /\ r.status < 600 THEN Exc("HTTPError", r) ELSE NoError

\* raise_for_response: the exception it raises, "none" when it returns
raise_for_response_NoMessageCheck(r) ==
    IF IsOk(r) THEN NoError
    ELSE IF r.text # <<>> /\ r.text[1] = LBRACE /\ JsonParse(r.text).ok
            /\ JsonParse(r.text).isDict
         THEN Exc("MagentoException", r)
         ELSE raise_for_status(r)
raise_for_response(r) ==
    IF IsOk(r) THEN NoError
    ELSE IF r.text # <<>> /\ r.text[1] = LBRACE /\ JsonParse(r.text).ok
            /\ JsonParse(r.text).isDict /\ DictHas(JsonParse(r.text), "message")
         THEN Exc("MagentoException", r)
         ELSE raise_for_status(r)

\* ------------------------------------------------------------------ client
\* scope segments a client is constructed with (__init__, self.scope)
Scopes == {DEFAULT_SCOPE, "fr"}
\* the generators (pagination calls); caller 0 is a direct request_api call
Gens == {1, 2}
Callers == {0} \cup Gens

Methods == {"get", "delete"}
Paths == {"/V1/products", "/V1/orders"}

\* a dict with string keys
EmptyDict == [k \in {} |-> 0]
DictSet(d, key, v) == [k \in (DOMAIN d) \cup {key} |-> IF k = key THEN v ELSE d[k]]

\* full_path of request_api, as the list of the segments concatenated
FullPath_AlwaysBulk(sc, async_bulk, path) == <<"/rest/", sc, "/async/bulk", path>>
FullPath(sc, async_bulk, path) ==
    <<"/rest/", sc>> \o (IF async_bulk THEN <<"/async/bulk">> ELSE <<>>) \o <<path>>

\* one entry of the transport's log
HttpEvent(method, full_path, params) ==
    [ev |-> "http", method |-> method, path |-> full_path, params |-> params, secs |-> 0]
SleepEvent(secs) ==
    [ev |-> "sleep", method |-> "", path |-> <<>>, params |-> EmptyDict, secs |-> secs]

\* request_api up to its first HTTP call: the activation record
request_api(sc, method, path, params, async_bulk, throw, retry) ==
    [pc |-> "attempt", method |-> method,
     full_path |-> FullPath(sc, async_bulk, path), params |-> params,
     throw |-> throw, retry |-> retry, r |-> NoResponse,
     attempts |-> 0, sleeps |-> 0, log |-> <<>>, exc |-> NoError]

IdleRequest ==
    [pc |-> "idle", method |-> "", full_path |-> <<>>, params |-> EmptyDict,
     throw |-> FALSE, retry |-> 0, r |-> NoResponse,
     attempts |-> 0, sleeps |-> 0, log |-> <<>>, exc |-> NoError]

\* the loop condition: while not r.ok and retry > 0
ShouldRetry_Always(r, retry) == ~IsOk(r)
ShouldRetry_OnOk(r, retry) == retry > 0
ShouldRetry(r, retry) == ~IsOk(r) /\ retry > 0

\* what request_api raises once the loop has ended
FinalError_Never(throw, r) == NoError
FinalError_Always(throw, r) == raise_for_response(r)
FinalError(throw, r) == IF throw THEN raise_for_response(r) ELSE NoError

\* request_api from the return of one HTTP call (response r) to its next
\* blocking point: the sleep before a retry, or its return or raise
AfterResponse(rq, r) ==
    LET got == [rq EXCEPT !.r = r, !.attempts = @ + 1,
                          !.log = Append(@, HttpEvent(rq.method, rq.full_path, rq.params))]
    IN  IF ShouldRetry(r, rq.retry)
        THEN [got EXCEPT !.retry = @ - 1, !.pc = "sleep"]
        ELSE LET e == FinalError(rq.throw, r)
             IN  [got EXCEPT !.pc = IF e = NoError THEN "returned" ELSE "raised",
                             !.exc = e]

\* time.sleep(10), then the next HTTP call is due
AfterSleep(rq) ==
    [rq EXCEPT !.sleeps = @ + 1, !.log = Append(@, SleepEvent(RETRY_SLEEP)),
               !.pc = "attempt"]

\* ------------------------------------------------------------------ server
OkStatuses == {200, 304}
FailStatuses == {404, 500}

MessageObject == <<LBRACE, Pair("message", <<>>), Pair("parameters", <<>>), RBRACE>>
ErrorTexts ==
    { <<>>,
      <<JUNK>>,
      MessageObject,
      <<LBRACE, Pair("code", <<>>), RBRACE>>,
      <<LBRACE, RBRACE>>,
      <<LBRACE, Pair("message", <<>>)>>,
      <<WS>> \o MessageObject,
      <<LBRACKET, JUNK, RBRACKET>> }

\* what the server may answer to a direct call
DirectResponses == {Response(s, t) : s \in OkStatuses \cup FailStatuses, t \in ErrorTexts}

\* --------------------------------------------------------------- paginator
KeyPageSize == "searchCriteria[pageSize]"
KeyCurrentPage == "searchCriteria[currentPage]"
KeyFilter == "searchCriteria[filterGroups][0][filters][0][value]"

\* the Query objects a caller builds (magento.queries): a filter, and a page
\* size of the caller's own
CallerQueries == { [k \in {KeyFilter, KeyPageSize} |-> 7] }

\* references to dict objects: the caller's Query, None, and per generator
\* the object bound to its local `query` and to its local `page_query`
CallerRef == <<"caller", 0>>
NoneRef == <<"None", 0>>
QueryRef(g) == <<"query", g>>
PageRef(g) == <<"page_query", g>>
Refs == {CallerRef} \cup {QueryRef(g) : g \in Gens} \cup {PageRef(g) : g \in Gens}

\* dict.copy(): the reference it returns, given the copied object's
\* reference and the address of the fresh object
CopyRef_Alias(src, fresh) == src
CopyRef(src, fresh) == fresh

Limits == (-2)..MaxLimit
GenPath == "/V1/products"

\* if limit == 0: return
EmptyRequested_Never(limit) == FALSE
EmptyRequested(limit) == limit = 0

\* page_size: self.PAGE_SIZE, or the limit when it is positive and smaller
PageSizeFor_Default(ps, limit) == ps
PageSizeFor(ps, limit) == IF limit > 0 /\ limit < ps THEN limit ELSE ps

\* if not items: break
PageIsEmpty_Never(items) == FALSE
PageIsEmpty(items) == items = <<>>

\* the two returns that follow count += 1
StopAfterYield_NoLimit(count, total_count, is_limited, limit) == count >= total_count
StopAfterYield_NoTotal(count, total_count, is_limited, limit) ==
    is_limited /\ count >= limit
StopAfterYield_OneEarly(count, total_count, is_limited, limit) ==
    count + 1 >= total_count \/ (is_limited /\ count >= limit)
StopAfterYield(count, total_count, is_limited, limit) ==
    count >= total_count \/ (is_limited /\ count >= limit)

NewGen ==
    [pc |-> "uncalled", limit |-> 0, retry |-> 0, queryArg |-> NoneRef,
     page_size |-> 0, is_limited |-> FALSE, query |-> NoneRef, page_query |-> NoneRef,
     current_page |-> 0, count |-> 0, items |-> <<>>, idx |-> 0, total_count |-> 0,
     yielded |-> <<>>, requests |-> 0, exc |-> NoError]

\* ------------------------------------------------------------ search server
Min(a, b) == IF a < b THEN a ELSE b

\* the body of a search response
PageText(hasItems, items, hasTotal, total) ==
    <<LBRACE>> \o (IF hasItems THEN <<Pair("items", items)>> ELSE <<>>)
               \o (IF hasTotal THEN <<Pair("total_count", <<total>>)>> ELSE <<>>)
               \o <<RBRACE>>

\* entities first..last, in order
RECURSIVE Range(_, _)
Range(first, last) == IF first > last THEN <<>> ELSE <<first>> \o Range(first + 1, last)

\* the server holding entities 1..t answers in full pages of the requested size
HonestPage(t, params) ==
    IF {KeyPageSize, KeyCurrentPage} \subseteq DOMAIN params
    THEN LET ps == params[KeyPageSize]
             p == params[KeyCurrentPage]
         IN  Response(200, PageText(TRUE, Range((p - 1) * ps + 1, Min(p * ps, t)), TRUE, t))
    ELSE Response(200, PageText(TRUE, Range(1, t), TRUE, t))

\* the items arrays a misbehaving server makes up: runs of entities that
\* start anywhere, of any length, whatever was asked for
ItemIds == {1, 2}
ItemSeqs == {<<>>} \cup {Range(a, a + n - 1) : a \in ItemIds, n \in 1..MaxPageLen}

\* anything a server may answer to a page request
MadeUpPages ==
    {Response(200, PageText(TRUE, it, TRUE, t)) : it \in ItemSeqs, t \in 0..MaxT}
    \cup {Response(200, PageText(TRUE, it, FALSE, 0)) : it \in ItemSeqs}
    \cup {Response(200, PageText(FALSE, <<>>, ht, MaxT)) : ht \in BOOLEAN}
    \cup {Response(200, <<LBRACKET, RBRACKET>>), Response(304, <<>>)}
PageFailures ==
    {Response(st, t) : st \in FailStatuses, t \in {<<JUNK>>, MessageObject}}
PageResponses(t, params) == {HonestPage(t, params)} \cup MadeUpPages \cup PageFailures

VARIABLES
    scope,      \* self.scope, set at construction
    PAGE_SIZE,  \* self.PAGE_SIZE, set at construction (batch_page_size)
    req,        \* per caller: the activation of request_api
    apiArgs,    \* the arguments of the direct request_api call
    srvFails,   \* the server fails the first srvFails attempts of the direct call
    srvT,       \* the number of entities the search server holds
    heap,       \* the dict objects, by reference
    callerQuery, \* the caller's Query as the caller built it
    gen,        \* per generator: the frame of get_paginated
    obs,        \* per generator: what the consumer and the server observed
    byQuery,    \* the activation of get_product_by_query
    deletion,   \* the activation of delete_product
    budget      \* the HTTP calls the transport counted for one pagination

vars == <<scope, PAGE_SIZE, req, apiArgs, srvFails, srvT, heap, callerQuery, gen, obs,
          byQuery, deletion, budget>>
clientVars == <<scope, PAGE_SIZE, srvT, callerQuery>>
genVars == <<heap, gen, obs>>
wrapVars == <<byQuery, deletion, budget>>

\* what a call gave back: a value it returned or an exception it raised
Returned(value) == [kind |-> "return", value |-> value, exc |-> NoError]
Raised(exc) == [kind |-> "raise", value |-> <<>>, exc |-> exc]

NoByQuery == [pc |-> "idle", expect_one |-> FALSE, result |-> Returned(<<>>)]
NoDeletion == [pc |-> "idle", skip_missing |-> FALSE, result |-> Returned(<<>>)]

\* retry: the retry the pagination was called with; attempts: the HTTP calls
\* of each page request that has ended, in order; fails: the failing answers
\* to the page request under way or last ended
NoBudget == [retry |-> 0, attempts |-> <<>>, fails |-> 0]

NoArgs == [method |-> "", path |-> "", async_bulk |-> FALSE, throw |-> FALSE, retry |-> 0]

\* honest: every answer so far was the honest full page; emptySeen, failSeen:
\* a page came back empty, a page request ended on a failing response, with
\* the requests made and the items yielded by then; served: the items of the
\* pages the server returned, in the order returned
NoObs ==
    [honest |-> TRUE, emptySeen |-> FALSE, emptyReq |-> 0,
     emptyYielded |-> 0, failSeen |-> FALSE, failReq |-> 0, failYielded |-> 0,
     served |-> <<>>]

\* a client built with batch_page_size and the default scope, a search server
\* holding srvT entities, and a Query the caller has built
Init ==
    /\ scope = DEFAULT_SCOPE
    /\ PAGE_SIZE \in 1..MaxPageSize
    /\ req = [c \in Callers |-> IdleRequest]
    /\ apiArgs = NoArgs
    /\ srvFails = 0
    /\ srvT \in 0..MaxT
    /\ callerQuery \in CallerQueries
    /\ heap = [ref \in Refs |-> IF ref = CallerRef THEN callerQuery ELSE EmptyDict]
    /\ gen = [g \in Gens |-> NewGen]
    /\ obs = [g \in Gens |-> NoObs]
    /\ byQuery = NoByQuery
    /\ deletion = NoDeletion
    /\ budget = NoBudget

\* a client built with a scope of its own and the default page size
InitReq ==
    /\ scope \in Scopes
    /\ PAGE_SIZE = DEFAULT_PAGE_SIZE
    /\ req = [c \in Callers |-> IdleRequest]
    /\ apiArgs = NoArgs
    /\ srvFails = 0
    /\ srvT = 0
    /\ callerQuery = EmptyDict
    /\ heap = [ref \in Refs |-> EmptyDict]
    /\ gen = [g \in Gens |-> NewGen]
    /\ obs = [g \in Gens |-> NoObs]
    /\ byQuery = NoByQuery
    /\ deletion = NoDeletion
    /\ budget = NoBudget

\* a caller calls request_api(method, path, async_bulk=, throw=, retry=); the
\* server it talks to fails f times in a row, then succeeds
ApiCall ==
    /\ req[0].pc = "idle"
    /\ \E method \in Methods, path \in Paths, async_bulk \in BOOLEAN,
          throw \in BOOLEAN, retry \in 0..MaxRetry, f \in 0..MaxFail :
          /\ req' = [req EXCEPT ![0] = request_api(scope, method, path, EmptyDict,
                                                   async_bulk, throw, retry)]
          /\ apiArgs' = [method |-> method, path |-> path, async_bulk |-> async_bulk,
                          throw |-> throw, retry |-> retry]
          /\ srvFails' = f
    /\ UNCHANGED <<clientVars, wrapVars, genVars>>

\* one HTTP call of the direct request and what follows it
ApiAttemptStep(answers) ==
    /\ req[0].pc = "attempt"
    /\ \E r \in answers :
          /\ r.status \in FailStatuses <=> req[0].attempts < srvFails
          /\ req' = [req EXCEPT ![0] = AfterResponse(req[0], r)]

ApiAttempt ==
    /\ ApiAttemptStep(DirectResponses)
    /\ UNCHANGED <<clientVars, wrapVars, genVars, apiArgs, srvFails>>

ApiSleep ==
    /\ req[0].pc = "sleep"
    /\ req' = [req EXCEPT ![0] = AfterSleep(req[0])]
    /\ UNCHANGED <<clientVars, wrapVars, genVars, apiArgs, srvFails>>

NextReq == ApiCall \/ ApiAttempt \/ ApiSleep

SpecReq == InitReq /\ [][NextReq]_vars

\* ------------------------------------------------------- get_paginated steps
\* get_api(..., throw=True, ...)
GetApiThrow_Off == FALSE
GetApiThrow == TRUE

\* retry=retry: request_api is given the value of the generator's retry and
\* counts down a local of its own; the generator's retry after the call
RetryAfter_Shared(retry, rq) == rq.retry
RetryAfter(retry, rq) == retry

\* for item in items: the item the loop binds at index idx
ItemAt_Last(items, idx) == items[Len(items)]
ItemAt(items, idx) == items[idx + 1]

\* get_api(path, page_query, throw=True, retry=retry) at the head of the
\* while loop: page_query = query.copy() with the current page set, then the
\* request is under way.  Gives the frame, the heap and the activation.
LoopHead(gs, h, g) ==
    LET pq == CopyRef(gs.query, PageRef(g))
        h1 == [h EXCEPT ![pq] = DictSet(h[gs.query], KeyCurrentPage, gs.current_page)]
    IN  [gen |-> [gs EXCEPT !.pc = "request", !.page_query = pq,
                            !.requests = @ + 1],
         heap |-> h1,
         req |-> request_api(scope, "get", GenPath, h1[pq], FALSE, GetApiThrow, gs.retry)]

\* the first next(): from the top of get_paginated to its first request
Start(gs, h, g) ==
    LET ps == PageSizeFor(PAGE_SIZE, gs.limit)
        q == IF gs.queryArg # NoneRef THEN CopyRef(gs.queryArg, QueryRef(g))
                                      ELSE QueryRef(g)
        h1 == [h EXCEPT ![q] = DictSet(IF gs.queryArg # NoneRef THEN h[gs.queryArg]
                                                                 ELSE EmptyDict,
                                       KeyPageSize, ps)]
    IN  LoopHead([gs EXCEPT !.page_size = ps, !.is_limited = gs.limit > 0,
                            !.query = q, !.current_page = 1, !.count = 0], h1, g)

\* the for loop at index idx (0-based count of items already yielded from the
\* page): yield the next item, or leave the loop for the next page
ForLoop(gs, h, g, rq) ==
    IF gs.idx < Len(gs.items)
    THEN [gen |-> [gs EXCEPT !.pc = "yielded", !.idx = @ + 1,
                             !.yielded = Append(@, ItemAt(gs.items, gs.idx))],
          heap |-> h, req |-> rq]
    ELSE LoopHead([gs EXCEPT !.current_page = @ + 1], h, g)

\* a later next(): from the yield to the next yield, request or return
Resume(gs, h, g, rq) ==
    LET c == gs.count + 1
        gs1 == [gs EXCEPT !.count = c]
    IN  IF StopAfterYield(c, gs.total_count, gs.is_limited, gs.limit)
        THEN [gen |-> [gs1 EXCEPT !.pc = "done"], heap |-> h, req |-> rq]
        ELSE ForLoop(gs1, h, g, rq)

\* get_api has returned response r and its activation is gone: .json(),
\* items, total_count, first yield
OnPage(gs, h, g, r) ==
    LET res == JsonParse(r.text)
        items == IF DictHas(res, "items") THEN DictGet(res, "items") ELSE <<>>
        raised(type) == [gen |-> [gs EXCEPT !.pc = "raised", !.exc = Exc(type, r)],
                         heap |-> h, req |-> IdleRequest]
    IN  IF ~res.ok THEN raised("JSONDecodeError")
        ELSE IF ~res.isDict THEN raised("AttributeError")
        ELSE IF PageIsEmpty(items)
             THEN [gen |-> [gs EXCEPT !.pc = "done"], heap |-> h, req |-> IdleRequest]
        ELSE IF ~DictHas(res, "total_count") THEN raised("KeyError")
        ELSE ForLoop([gs EXCEPT !.items = items, !.idx = 0,
                                !.total_count = DictGet(res, "total_count")[1]],
                     h, g, IdleRequest)

\* get_api has raised: the exception leaves the generator (the activation
\* that raised stays in the traceback)
OnError(gs, h, g, rq) ==
    [gen |-> [gs EXCEPT !.pc = "raised", !.exc = rq.exc], heap |-> h, req |-> rq]

\* the items array a response carries, none when it is no JSON object
ItemsOf(r) ==
    LET j == JsonParse(r.text)
        at == {i \in 1..Len(j.members) : j.members[i].k = "items"}
    IN  IF j.ok /\ j.isDict /\ at # {}
        THEN j.members[CHOOSE i \in at : \A l \in at : l <= i].v
        ELSE <<>>

\* the response carries an empty or no items array
EmptyPage(r) ==
    /\ JsonParse(r.text).ok /\ JsonParse(r.text).isDict
    /\ \A i \in 1..Len(JsonParse(r.text).members) :
          JsonParse(r.text).members[i].k = "items"
              => JsonParse(r.text).members[i].v = <<>>

\* get_paginated is a generator function: the call binds the arguments and
\* runs none of the body
AtCall_Eager(gs, h, g, rq) ==
    IF EmptyRequested(gs.limit)
    THEN [gen |-> [gs EXCEPT !.pc = "done"], heap |-> h, req |-> rq]
    ELSE Start(gs, h, g)
AtCall(gs, h, g, rq) == [gen |-> [gs EXCEPT !.pc = "created"], heap |-> h, req |-> rq]

\* --------------------------------------------------------- paginator actions
Apply(g, out) ==
    /\ gen' = [gen EXCEPT ![g] = out.gen]
    /\ heap' = out.heap
    /\ req' = [req EXCEPT ![g] = out.req]

\* the caller calls get_paginated(path, query=, limit=, retry=): a generator
\* object is made, none of its code runs yet
GetPaginatedStep(g, limits, retries, queries) ==
    /\ gen[g].pc = "uncalled"
    /\ \E limit \in limits, retry \in retries, q \in queries :
          Apply(g, AtCall([gen[g] EXCEPT !.limit = limit, !.retry = retry,
                                         !.queryArg = q], heap, g, req[g]))

GetPaginatedWith(g, limits, retries) ==
    /\ GetPaginatedStep(g, limits, retries, {NoneRef, CallerRef})
    /\ UNCHANGED <<clientVars, wrapVars, apiArgs, srvFails, obs>>

GetPaginated(g) == GetPaginatedWith(g, Limits, 0..MaxRetry)

\* the consumer pulls the next item
PullStep(g) ==
    /\ gen[g].pc \in {"created", "yielded"}
    /\ IF gen[g].pc = "yielded"
       THEN Apply(g, Resume(gen[g], heap, g, req[g]))
       ELSE IF EmptyRequested(gen[g].limit)
            THEN Apply(g, [gen |-> [gen[g] EXCEPT !.pc = "done"], heap |-> heap,
                           req |-> req[g]])
            ELSE Apply(g, Start(gen[g], heap, g))

Pull(g) ==
    /\ PullStep(g)
    /\ UNCHANGED <<clientVars, wrapVars, apiArgs, srvFails, obs>>

\* one HTTP call of a page request and what follows it
GenAttemptStep(g, answers) ==
    /\ gen[g].pc = "request"
    /\ req[g].pc = "attempt"
    /\ \E r \in answers :
          LET rq == AfterResponse(req[g], r)
              ob == [obs[g] EXCEPT !.honest = @ /\ r = HonestPage(srvT, req[g].params)]
          IN  /\ Apply(g, CASE rq.pc = "returned" ->
                                OnPage([gen[g] EXCEPT !.retry = RetryAfter(@, rq)],
                                       heap, g, r)
                            [] rq.pc = "raised" -> OnError(gen[g], heap, g, rq)
                            [] OTHER -> [gen |-> gen[g], heap |-> heap, req |-> rq])
              /\ obs' = [obs EXCEPT ![g] =
                            IF rq.pc = "sleep" THEN ob
                            ELSE IF r.status \in FailStatuses
                            THEN [ob EXCEPT !.failSeen = TRUE,
                                            !.failReq = gen[g].requests,
                                            !.failYielded = Len(gen[g].yielded)]
                            ELSE IF rq.pc = "returned" /\ EmptyPage(r) /\ ~ob.emptySeen
                            THEN [ob EXCEPT !.emptySeen = TRUE,
                                            !.emptyReq = gen[g].requests,
                                            !.emptyYielded = Len(gen[g].yielded)]
                            ELSE [ob EXCEPT !.served = @ \o ItemsOf(r)]]

GenAttemptWith(g, answers) ==
    /\ GenAttemptStep(g, answers)
    /\ UNCHANGED <<clientVars, wrapVars, apiArgs, srvFails>>

GenAttempt(g) == GenAttemptWith(g, PageResponses(srvT, req[g].params))

\* the sleep before a retry of a page request
GenSleep(g) ==
    /\ gen[g].pc = "request"
    /\ req[g].pc = "sleep"
    /\ req' = [req EXCEPT ![g] = AfterSleep(req[g])]
    /\ UNCHANGED <<clientVars, wrapVars, apiArgs, srvFails, genVars>>

\* one pagination
Next == GetPaginated(1) \/ Pull(1) \/ GenAttempt(1) \/ GenSleep(1)

Spec == Init /\ [][Next]_vars

\* one pagination against a server that reports total_count = srvT on every
\* page, whatever items it returns and however many pages are asked for
ConstTotalPages(t) == {Response(200, PageText(TRUE, it, TRUE, t)) : it \in ItemSeqs}

GenAttemptConst(g) ==
    GenAttemptWith(g, {HonestPage(srvT, req[g].params)} \cup ConstTotalPages(srvT)
                          \cup PageFailures)

NextConst == GetPaginated(1) \/ Pull(1) \/ GenAttemptConst(1) \/ GenSleep(1)

SpecConst == Init /\ [][NextConst]_vars

\* two paginations of one client, given the same Query object, their pulls
\* interleaved
TwoLimits == {-1, 1, 2}
TwoAnswers(g) ==
    { HonestPage(srvT, req[g].params),
      Response(200, PageText(TRUE, <<>>, TRUE, MaxT)),
      Response(500, <<JUNK>>) }

GetPaginatedTwo(g) == GetPaginatedWith(g, TwoLimits, {0, 1})
GenAttemptTwo(g) == GenAttemptWith(g, TwoAnswers(g))

NextTwo ==
    \E g \in Gens : GetPaginatedTwo(g) \/ Pull(g) \/ GenAttemptTwo(g) \/ GenSleep(g)

SpecTwo == Init /\ [][NextTwo]_vars

\* one pagination with the transport counting the HTTP calls of every page
\* request; the server answers honestly or fails
BudgetAnswers(g) ==
    {HonestPage(srvT, req[g].params)}
    \cup {Response(st, MessageObject) : st \in FailStatuses}

\* the count after one HTTP call of a page request (activation rq before the
\* call, rqAfter and frame gsAfter after it)
BudgetAfter(b, rq, rqAfter, gsAfter) ==
    IF rqAfter.pc = "sleep" THEN [b EXCEPT !.fails = @ + 1]
    ELSE IF gsAfter.pc = "raised" /\ gsAfter.exc.type \in {"MagentoException", "HTTPError"}
    THEN [b EXCEPT !.fails = @ + 1, !.attempts = Append(@, rq.attempts + 1)]
    ELSE [b EXCEPT !.fails = 0, !.attempts = Append(@, rq.attempts + 1)]

BudgetCall ==
    /\ GetPaginatedStep(1, Limits, 0..MaxRetry, {NoneRef})
    /\ budget' = [NoBudget EXCEPT !.retry = gen'[1].retry]
    /\ UNCHANGED <<clientVars, byQuery, deletion, apiArgs, srvFails, obs>>

BudgetAttempt ==
    /\ GenAttemptStep(1, BudgetAnswers(1))
    /\ budget' = BudgetAfter(budget, req[1], req'[1], gen'[1])
    /\ UNCHANGED <<clientVars, byQuery, deletion, apiArgs, srvFails>>

NextBudget == BudgetCall \/ Pull(1) \/ BudgetAttempt \/ GenSleep(1)

SpecBudget == Init /\ [][NextBudget]_vars

\* ------------------------------------------------- get_product_by_query
None == <<>>

\* the branch of get_product_by_query taken with expect_one: the list of the
\* products decides
ExpectOne_First(products) ==
    IF products = <<>> THEN Returned(None) ELSE Returned(<<products[1]>>)
ExpectOne(products) ==
    IF products = <<>> THEN Returned(None)
    ELSE IF Len(products) = 1 THEN Returned(<<products[1]>>)
    ELSE Raised(Exc("MagentoAssertionError", NoResponse))

\* get_products(query=query, limit=...): the limit of either branch
ByQueryLimit(expect_one) == IF expect_one THEN 2 ELSE 1

\* get_product_by_query once its generator (frame gs) has run to its next
\* suspension, end or raise: list() pulls on until the end, the for loop of
\* the other branch returns the first product it is given
ByQueryAfter(bq, gs) ==
    IF gs.pc = "raised" THEN [bq EXCEPT !.pc = "done", !.result = Raised(gs.exc)]
    ELSE IF bq.expect_one
    THEN IF gs.pc = "done"
         THEN [bq EXCEPT !.pc = "done", !.result = ExpectOne(gs.yielded)]
         ELSE bq
    ELSE IF gs.pc = "yielded"
    THEN [bq EXCEPT !.pc = "done", !.result = Returned(<<gs.yielded[Len(gs.yielded)]>>)]
    ELSE IF gs.pc = "done"
    THEN [bq EXCEPT !.pc = "done", !.result = Returned(None)]
    ELSE bq

\* the caller calls get_product_by_query(query, expect_one=)
ByQueryCall ==
    /\ byQuery.pc = "idle"
    /\ \E expect_one \in BOOLEAN :
          /\ byQuery' = [NoByQuery EXCEPT !.pc = "listing", !.expect_one = expect_one]
          /\ GetPaginatedStep(1, {ByQueryLimit(expect_one)}, {0}, {CallerRef})
    /\ UNCHANGED <<clientVars, deletion, budget, apiArgs, srvFails, obs>>

\* list() or the for loop pulls the next product
ByQueryPull ==
    /\ byQuery.pc = "listing"
    /\ PullStep(1)
    /\ byQuery' = ByQueryAfter(byQuery, gen'[1])
    /\ UNCHANGED <<clientVars, deletion, budget, apiArgs, srvFails, obs>>

\* the HTTP call of a page request of the listing
ByQueryAttempt ==
    /\ byQuery.pc = "listing"
    /\ GenAttemptStep(1, PageResponses(srvT, req[1].params))
    /\ byQuery' = ByQueryAfter(byQuery, gen'[1])
    /\ UNCHANGED <<clientVars, deletion, budget, apiArgs, srvFails>>

NextByQuery == ByQueryCall \/ ByQueryPull \/ ByQueryAttempt

SpecByQuery == Init /\ [][NextByQuery]_vars

\* ---------------------------------------------------------- delete_product
TRUE_LIT == Tok("true")
FALSE_LIT == Tok("false")

\* response.json() of the answer to a DELETE: the Python value decoded
JsonValue(text) ==
    LET s == RStrip(LStrip(text))
    IN  IF s = <<TRUE_LIT>> THEN [ok |-> TRUE, value |-> <<"True">>]
        ELSE IF s = <<FALSE_LIT>> THEN [ok |-> TRUE, value |-> <<"False">>]
        ELSE IF JsonParse(text).ok
        THEN [ok |-> TRUE, value |-> IF JsonParse(text).isDict THEN <<"dict">> ELSE <<"list">>]
        ELSE [ok |-> FALSE, value |-> <<>>]

\* the path of the product deleted
ProductPath == "/V1/products/sku"

\* the except clause of delete_product
SkipMissing(skip_missing, e) ==
    skip_missing /\ e.response # NoResponse /\ e.response.status = 404

\* delete_product once delete_api (activation rq) has returned or raised
DeleteOutcome(skip_missing, rq) ==
    IF rq.pc = "raised"
    THEN IF SkipMissing(skip_missing, rq.exc) THEN Returned(<<"False">>) ELSE Raised(rq.exc)
    ELSE IF JsonValue(rq.r.text).ok THEN Returned(JsonValue(rq.r.text).value)
    ELSE Raised(Exc("JSONDecodeError", rq.r))

\* what the server may answer to the DELETE
DeleteResponses ==
    {Response(200, t) : t \in {<<TRUE_LIT>>, <<FALSE_LIT>>}}
    \cup {Response(st, t) : st \in FailStatuses, t \in {<<>>, <<JUNK>>, MessageObject}}

\* the caller calls delete_product(sku, skip_missing=, throw=, retry=)
DeleteCall ==
    /\ deletion.pc = "idle"
    /\ \E skip_missing \in BOOLEAN, throw \in BOOLEAN, retry \in 0..MaxRetry,
          f \in 0..MaxFail :
          /\ req' = [req EXCEPT ![0] = request_api(scope, "delete", ProductPath,
                                                   EmptyDict, FALSE, throw, retry)]
          /\ apiArgs' = [method |-> "delete", path |-> ProductPath,
                          async_bulk |-> FALSE, throw |-> throw, retry |-> retry]
          /\ srvFails' = f
          /\ deletion' = [NoDeletion EXCEPT !.pc = "deleting",
                                           !.skip_missing = skip_missing]
    /\ UNCHANGED <<clientVars, byQuery, budget, genVars>>

\* one HTTP call of the DELETE and what follows it
DeleteAttempt ==
    /\ deletion.pc = "deleting"
    /\ ApiAttemptStep(DeleteResponses)
    /\ deletion' = IF req'[0].pc \in {"returned", "raised"}
                   THEN [deletion EXCEPT !.pc = "done",
                            !.result = DeleteOutcome(deletion.skip_missing, req'[0])]
                   ELSE deletion
    /\ UNCHANGED <<clientVars, byQuery, budget, genVars, apiArgs, srvFails>>

DeleteSleep ==
    /\ deletion.pc = "deleting"
    /\ req[0].pc = "sleep"
    /\ req' = [req EXCEPT ![0] = AfterSleep(req[0])]
    /\ UNCHANGED <<clientVars, wrapVars, genVars, apiArgs, srvFails>>

NextDelete == DeleteCall \/ DeleteAttempt \/ DeleteSleep

SpecDelete == InitReq /\ [][NextDelete]_vars

\* =================================================================== claims
\* the frame and the observations of the pagination of Spec
G == gen[1]
O == obs[1]
\* the activation of the direct call of SpecReq
RQ == req[0]
ApiDone == RQ.pc \in {"returned", "raised"}

CeilDiv(a, b) == (a + b - 1) \div b
Is2xx(r) == r.status >= 200 /\ r.status < 300
IsErrorStatus(r) == r.status >= 400 /\ r.status < 600
HasMessageObject(text) ==
    /\ JsonParse(text).ok
    /\ JsonParse(text).isDict
    /\ \E i \in 1..Len(JsonParse(text).members) : JsonParse(text).members[i].k = "message"

\* C1: with a limit k > 0 and a server that reports total_count T on every
\* page and serves its T entities in full pages, a pagination that has ended
\* has yielded exactly min(k, T) entities, and once k entities are yielded no
\* page request is under way or follows.
C1_LimitedYield ==
    (O.honest /\ G.limit > 0) =>
        /\ G.pc # "raised"
        /\ Len(G.yielded) <= Min(G.limit, srvT)
        /\ G.pc = "done" => Len(G.yielded) = Min(G.limit, srvT)
        /\ Len(G.yielded) >= G.limit => G.pc \in {"yielded", "done"} /\ req[1].pc = "idle"

C1_Witness ==
    /\ O.honest /\ G.pc = "done" /\ G.limit = 2 /\ srvT = 3 /\ PAGE_SIZE = 1
    /\ G.yielded = <<1, 2>> /\ G.requests = 2

\* C2: with a negative limit and such a server, a pagination that has ended
\* has yielded exactly T entities, and it never yields more than T.
C2_UnlimitedYield ==
    (O.honest /\ G.limit < 0) =>
        /\ G.pc # "raised"
        /\ Len(G.yielded) <= srvT
        /\ G.pc = "done" => Len(G.yielded) = srvT

C2_Witness ==
    /\ O.honest /\ G.pc = "done" /\ G.limit = -2 /\ srvT = 3 /\ PAGE_SIZE = 2
    /\ G.yielded = <<1, 2, 3>>

\* C3: with limit 0 nothing is yielded and no request is made, whatever the
\* query, the retry count and the server.
C3_LimitZero ==
    (G.pc # "uncalled" /\ G.limit = 0) =>
        /\ G.yielded = <<>>
        /\ G.requests = 0
        /\ req[1] = IdleRequest
        /\ G.pc \in {"created", "done"}

C3_Witness ==
    G.pc = "done" /\ G.limit = 0 /\ G.retry = MaxRetry /\ G.queryArg = CallerRef /\ srvT > 0

\* C4: with effective page size P, such a server holding T > 0 entities and a
\* limit L (positive, or none), a pagination that has ended has made exactly
\* ceil(min(L, T) / P) page requests, ceil(T / P) without a limit.
C4_MinimumRequests ==
    (O.honest /\ srvT > 0 /\ G.limit # 0 /\ G.pc = "done") =>
        LET P == IF G.limit > 0 THEN Min(PAGE_SIZE, G.limit) ELSE PAGE_SIZE
            wanted == IF G.limit > 0 THEN Min(G.limit, srvT) ELSE srvT
        IN  G.requests = CeilDiv(wanted, P)

C4_Witness ==
    /\ O.honest /\ G.pc = "done" /\ G.limit = -1 /\ srvT = 2 /\ PAGE_SIZE = 1
    /\ G.requests = 2

\* C5: with retry count n >= 0 and a server that fails f times in a row and
\* then succeeds, request_api makes exactly min(f, n) + 1 HTTP calls and
\* sleeps exactly min(f, n) times, each sleep between two calls, and returns
\* the successful response when f <= n.
C5_RetryCount ==
    LET m == Min(srvFails, apiArgs.retry)
    IN  /\ RQ.attempts <= m + 1
        /\ RQ.sleeps <= m
        /\ \A i \in 1..Len(RQ.log) : RQ.log[i].ev = IF i % 2 = 1 THEN "http" ELSE "sleep"
        /\ ApiDone =>
              /\ RQ.attempts = m + 1
              /\ RQ.sleeps = m
              /\ Len(RQ.log) = 2 * m + 1
              /\ srvFails <= apiArgs.retry =>
                    RQ.pc = "returned" /\ RQ.r.status \in OkStatuses

C5_Witness ==
    /\ ApiDone /\ srvFails = 2 /\ apiArgs.retry = 2 /\ RQ.attempts = 3 /\ RQ.sleeps = 2
    /\ RQ.pc = "returned" /\ RQ.r.status = 200

\* C6 as stated: every response that is not 2xx raises MagentoException when
\* its body is a JSON object with a "message" member, and the generic HTTP
\* error otherwise.
C6_Original ==
    (ApiDone /\ apiArgs.throw /\ ~Is2xx(RQ.r)) =>
        RQ.exc.type = IF HasMessageObject(RQ.r.text) THEN "MagentoException"
                                                     ELSE "HTTPError"

\* C6 amended: a response with status 400..599 raises MagentoException when
\* its body starts with "{" and is a JSON object with a "message" member, and
\* the generic HTTP error carrying the response otherwise; any other status
\* raises nothing.
C6_Amended ==
    (ApiDone /\ apiArgs.throw) =>
        RQ.exc = IF ~IsErrorStatus(RQ.r) THEN NoError
                 ELSE IF RQ.r.text # <<>> /\ RQ.r.text[1] = LBRACE
                         /\ HasMessageObject(RQ.r.text)
                      THEN Exc("MagentoException", RQ.r)
                      ELSE Exc("HTTPError", RQ.r)

C6_Witness ==
    /\ ApiDone /\ apiArgs.throw /\ RQ.r = Response(404, MessageObject)
    /\ RQ.exc.type = "MagentoException"

\* C7 as stated: with throw set, a final response that is not 2xx is never
\* returned to the caller.
C7_Original == (RQ.pc = "returned" /\ apiArgs.throw) => Is2xx(RQ.r)

\* C7 amended: with throw set, a final response with status 400..599 always
\* raises an error that carries that response and is never returned; the
\* responses with status 400..599 are the ones that trigger a retry.
C7_Amended ==
    /\ (ApiDone /\ apiArgs.throw /\ IsErrorStatus(RQ.r)) =>
          /\ RQ.pc = "raised"
          /\ RQ.exc.type \in {"MagentoException", "HTTPError"}
          /\ RQ.exc.response = RQ.r
    /\ RQ.pc = "sleep" => IsErrorStatus(RQ.r)
    /\ (ApiDone /\ IsErrorStatus(RQ.r)) => RQ.retry = 0

C7_Witness ==
    /\ RQ.pc = "raised" /\ apiArgs.throw /\ apiArgs.retry = 2 /\ RQ.attempts = 3
    /\ RQ.r = Response(500, <<JUNK>>) /\ RQ.exc = Exc("HTTPError", RQ.r)

\* C8: with throw unset, request_api raises nothing whatever the status; when
\* the retries are used up it returns the last response.
C8_NoThrow ==
    (RQ.pc # "idle" /\ ~apiArgs.throw) =>
        /\ RQ.pc # "raised"
        /\ RQ.exc = NoError
        /\ (RQ.pc = "returned" /\ IsErrorStatus(RQ.r)) =>
              RQ.attempts = apiArgs.retry + 1

C8_Witness ==
    /\ RQ.pc = "returned" /\ ~apiArgs.throw /\ RQ.r.status = 500
    /\ apiArgs.retry = 2 /\ RQ.attempts = 3

\* C9: the caller's Query keeps exactly the keys and values the caller gave
\* it, and each page request of a pagination carries that pagination's own
\* page size and page number on top of the caller's keys.
C9_QueryNotMutated ==
    /\ heap[CallerRef] = callerQuery
    /\ \A g \in Gens :
          gen[g].pc = "request" =>
              /\ DOMAIN req[g].params =
                    (IF gen[g].queryArg = CallerRef THEN DOMAIN callerQuery ELSE {})
                        \cup {KeyPageSize, KeyCurrentPage}
              /\ req[g].params[KeyPageSize] = gen[g].page_size
              /\ req[g].params[KeyCurrentPage] = gen[g].current_page
              /\ gen[g].queryArg = CallerRef =>
                    req[g].params[KeyFilter] = callerQuery[KeyFilter]

C9_Witness ==
    /\ gen[1].queryArg = CallerRef /\ gen[2].queryArg = CallerRef
    /\ gen[1].limit = 1 /\ gen[2].limit = -1
    /\ gen[1].pc = "done" /\ gen[2].pc = "request" /\ gen[2].requests = 2
    /\ KeyCurrentPage \notin DOMAIN heap[CallerRef]

\* C10: once a page response carries an empty or no items array the
\* pagination has ended: nothing more is yielded and no request follows,
\* whatever total_count said; an empty first page gives an empty sequence
\* after one request.
C10_EmptyPageEnds ==
    O.emptySeen =>
        /\ G.pc = "done"
        /\ G.requests = O.emptyReq
        /\ Len(G.yielded) = O.emptyYielded
        /\ req[1].pc = "idle"
        /\ O.emptyReq = 1 => G.yielded = <<>>

C10_Witness ==
    /\ O.emptySeen /\ O.emptyReq = 2 /\ O.emptyYielded = 1 /\ G.total_count = 3
    /\ G.pc = "done"

\* C11: every page request asks for error raising; once a page request has
\* ended on a failing response the pagination has raised the error made from
\* that response, has yielded nothing since and has made no further request.
C11_FailedPageRaises ==
    /\ G.pc = "request" => req[1].throw
    /\ O.failSeen =>
          /\ G.pc = "raised"
          /\ G.exc.type \in {"MagentoException", "HTTPError"}
          /\ IsErrorStatus(G.exc.response)
          /\ G.requests = O.failReq
          /\ Len(G.yielded) = O.failYielded

C11_Witness ==
    /\ O.failSeen /\ G.pc = "raised" /\ G.requests = 2 /\ Len(G.yielded) = 2
    /\ G.retry = 1 /\ req[1].attempts = 2
    /\ G.exc = Exc("MagentoException", Response(500, MessageObject))

Max(a, b) == IF a > b THEN a ELSE b

\* C12: without a limit and with a server that reports the same total_count
\* T on every page, whatever items it returns, the pagination makes at most
\* max(T, 1) page requests of at most retry + 1 HTTP calls each and yields
\* at most max(T, 1) items, so it ends.
C12_BoundedRequests ==
    (G.limit < 0) =>
        /\ G.requests <= Max(srvT, 1)
        /\ Len(G.yielded) <= Max(srvT, 1)
        /\ req[1].attempts <= G.retry + 1
        /\ (G.pc = "request" /\ G.requests > 1) => Len(G.yielded) < srvT

C12_Witness ==
    /\ G.limit < 0 /\ G.pc = "done" /\ ~O.honest /\ srvT = 1
    /\ Len(G.items) = 2 /\ G.yielded = <<2>> /\ G.requests = 1

\* C13: no request is made before the first pull; a page request starts only
\* in a pull, one request per pull, and after a yield only when every item of
\* the page has been yielded; while the generator is suspended no request is
\* under way.
C13_PullDriven ==
    [][ /\ G.pc \in {"uncalled", "created", "yielded", "done"} => req[1].pc = "idle"
        /\ G.pc \in {"uncalled", "created"} => G.requests = 0
        /\ G'.requests # G.requests =>
              /\ G.pc \in {"created", "yielded"}
              /\ G'.requests = G.requests + 1
              /\ G.pc = "yielded" => G.idx = Len(G.items) ]_vars

C13_Witness ==
    /\ G.pc = "yielded" /\ G.requests = 1 /\ Len(G.items) = 2 /\ G.idx = 2
    /\ O.honest /\ srvT = 3 /\ G.limit < 0

\* C16: with a limit other than 0, the items yielded are a prefix of the
\* items of the pages as the server returned them, in order, one after the
\* other.
C16_PrefixOfPages ==
    (G.limit # 0) =>
        /\ Len(G.yielded) <= Len(O.served)
        /\ G.yielded = SubSeq(O.served, 1, Len(G.yielded))

C16_Witness ==
    /\ ~O.honest /\ G.pc = "done" /\ G.yielded = <<2, 3, 1>> /\ O.served = <<2, 3, 1, 2>>

\* C17: every HTTP call of a request_api call goes to "/rest/" + scope + path,
\* with "/async/bulk" between scope and path exactly when async_bulk is set,
\* and the first call and every retry use the same method and path.
C17_FullPath ==
    \A i \in 1..Len(RQ.log) :
        RQ.log[i].ev = "http" =>
            /\ RQ.log[i].method = apiArgs.method
            /\ RQ.log[i].path =
                  IF apiArgs.async_bulk
                  THEN <<"/rest/", scope, "/async/bulk", apiArgs.path>>
                  ELSE <<"/rest/", scope, apiArgs.path>>

C17_Witness ==
    /\ ApiDone /\ RQ.attempts = 3 /\ ~apiArgs.async_bulk /\ scope = "fr"
    /\ apiArgs.method = "delete"

\* the keys the pagination of Spec was given by its caller
CallerKeys == IF G.queryArg = CallerRef THEN DOMAIN callerQuery ELSE {}
EffectivePageSize == IF G.limit > 0 THEN Min(PAGE_SIZE, G.limit) ELSE PAGE_SIZE

\* C18 as stated: every page request carries all of the caller's keys
\* unchanged, plus the page size and the page number.
C18_Original ==
    G.pc = "request" =>
        /\ \A k \in CallerKeys : req[1].params[k] = callerQuery[k]
        /\ req[1].params[KeyPageSize] = EffectivePageSize
        /\ req[1].params[KeyCurrentPage] = G.requests

\* C18 amended: every page request carries the caller's keys other than
\* pageSize and currentPage unchanged; its pageSize is min(default page size,
\* limit) for a positive limit and the default page size otherwise, also when
\* the caller's Query has a pageSize of its own; its currentPage is the
\* number of the request, 1 for the first; a retry carries the same keys.
C18_Amended ==
    G.pc = "request" =>
        /\ DOMAIN req[1].params = CallerKeys \cup {KeyPageSize, KeyCurrentPage}
        /\ \A k \in CallerKeys \ {KeyPageSize, KeyCurrentPage} :
              req[1].params[k] = callerQuery[k]
        /\ req[1].params[KeyPageSize] = EffectivePageSize
        /\ req[1].params[KeyCurrentPage] = G.requests
        /\ \A i \in 1..Len(req[1].log) :
              req[1].log[i].ev = "http" => req[1].log[i].params = req[1].params

C18_Witness ==
    /\ G.pc = "request" /\ G.requests = 2 /\ G.limit = 3 /\ PAGE_SIZE = 2
    /\ G.queryArg = CallerRef /\ req[1].attempts = 1

\* C19 as stated: the number of items yielded never exceeds the total_count
\* of the page being consumed.
C19_Original == G.idx >= 1 => Len(G.yielded) <= G.total_count

\* C19 amended: the first item of a non-empty page is always yielded; a
\* further item of the page is yielded only while the number of items yielded
\* stays within that page's total_count.
C19_Amended ==
    G.idx >= 1 => Len(G.yielded) <= Max(G.total_count, Len(G.yielded) - G.idx + 1)

C19_Witness ==
    /\ G.pc = "done" /\ G.total_count = 1 /\ Len(G.items) = 2 /\ G.idx = 1
    /\ Len(G.yielded) = 1

\* C20: each of two interleaved paginations of one client yields the items
\* and makes the page requests it makes alone: with honest answers, the
\* entities 1, 2, ... up to its own limit in its own number of requests, each
\* request carrying its own page size and its own page number.
C20_Independent ==
    \A g \in Gens :
        LET n == IF gen[g].limit > 0 THEN Min(gen[g].limit, srvT) ELSE srvT
            ps == IF gen[g].limit > 0 THEN Min(PAGE_SIZE, gen[g].limit) ELSE PAGE_SIZE
        IN  /\ gen[g].pc = "request" =>
                  /\ req[g].params[KeyPageSize] = ps
                  /\ req[g].params[KeyCurrentPage] = gen[g].requests
            /\ (obs[g].honest /\ gen[g].pc # "uncalled") =>
                  /\ Len(gen[g].yielded) <= n
                  /\ gen[g].yielded = Range(1, Len(gen[g].yielded))
                  /\ gen[g].requests <= Max(CeilDiv(n, ps), 1)
                  /\ gen[g].pc = "done" =>
                        /\ Len(gen[g].yielded) = n
                        /\ gen[g].requests = Max(CeilDiv(n, ps), 1)

C20_Witness ==
    /\ obs[1].honest /\ obs[2].honest
    /\ gen[1].queryArg = CallerRef /\ gen[2].queryArg = CallerRef
    /\ gen[1].limit = 2 /\ gen[2].limit = -1
    /\ gen[1].pc = "request" /\ gen[1].current_page = 2
    /\ gen[2].pc = "request" /\ gen[2].current_page = 3

\* C14: get_product_by_query with expect_one returns None when the query
\* matches no product, the product when it matches exactly one, and raises
\* MagentoAssertionError when it matches more than one; the paginator never
\* yields it more than two entities, and two yielded entities always end in
\* MagentoAssertionError.
C14_ExpectOne ==
    byQuery.expect_one =>
        /\ Len(G.yielded) <= 2
        /\ G.limit = 2
        /\ byQuery.pc = "done" =>
              /\ Len(G.yielded) = 2 =>
                    byQuery.result = Raised(Exc("MagentoAssertionError", NoResponse))
              /\ O.honest =>
                    byQuery.result =
                        IF srvT = 0 THEN Returned(None)
                        ELSE IF srvT = 1 THEN Returned(<<1>>)
                        ELSE Raised(Exc("MagentoAssertionError", NoResponse))

C14_Witness ==
    /\ byQuery.pc = "done" /\ byQuery.expect_one /\ O.honest /\ srvT = 3
    /\ PAGE_SIZE = 1 /\ G.requests = 2
    /\ byQuery.result.exc.type = "MagentoAssertionError"

\* C15 as stated: delete_product with skip_missing returns False and does not
\* raise whenever the server's final answer is 404, for either throw; every
\* other error raised by the request is propagated unchanged.
C15_SkipMissing ==
    deletion.pc = "done" =>
        /\ (deletion.skip_missing /\ RQ.r.status = 404) =>
              deletion.result = Returned(<<"False">>)
        /\ (RQ.pc = "raised" /\ ~(deletion.skip_missing /\ RQ.r.status = 404)) =>
              deletion.result = Raised(RQ.exc)

RECURSIVE SumSeq(_)
SumSeq(q) == IF q = <<>> THEN 0 ELSE Head(q) + SumSeq(Tail(q))

\* the HTTP calls of the pagination so far
TotalAttempts ==
    SumSeq(budget.attempts) + (IF G.pc = "request" THEN req[1].attempts ELSE 0)

\* C21: in a pagination called with retry n every page request has a budget
\* of its own: whatever earlier page requests used, a page request under way
\* has made n attempts less the retries it has left, no page request makes
\* more than n + 1 attempts, m page requests make at most m * (n + 1)
\* attempts, and a page request fails only with n + 1 failed attempts of its
\* own, all of its attempts.
C21_PerPageBudget ==
    (G.pc # "uncalled") =>
        /\ G.retry = budget.retry
        /\ Len(budget.attempts) + (IF G.pc = "request" THEN 1 ELSE 0) = G.requests
        /\ \A i \in 1..Len(budget.attempts) :
              budget.attempts[i] >= 1 /\ budget.attempts[i] <= budget.retry + 1
        /\ G.pc = "request" =>
              /\ req[1].attempts + req[1].retry = budget.retry
              /\ budget.fails = req[1].attempts
        /\ TotalAttempts <= G.requests * (budget.retry + 1)
        /\ G.pc = "raised" =>
              /\ budget.attempts[Len(budget.attempts)] = budget.retry + 1
              /\ budget.fails = budget.retry + 1

C21_Witness ==
    /\ G.pc = "raised" /\ budget.retry = 2 /\ budget.attempts = <<3, 3>>
    /\ budget.fails = 3 /\ Len(G.yielded) = 2

====
